---- MODULE Spec2Model ----
(***************************************************************************)
(* Message-list state machine of the ChatInterface component: the turn     *)
(* controller (handleSendMessage), the two response acquirers              *)
(* (simulateAIResponse, getAIResponse) and the clipboard helper            *)
(* (copyMessage) with its reset timer.                                     *)
(*                                                                         *)
(* Text is a sequence of chunks.  A typed character is a one-character     *)
(* chunk; a string literal of the source is a single chunk.  The empty     *)
(* string is the empty sequence.                                           *)
(***************************************************************************)
EXTENDS Integers, Sequences, FiniteSets

\* ---------------------------------------------------------------- bounds
MaxCalls == 2        \* handleSendMessage invocations in one run
MaxCopies == 2       \* copyMessage invocations in one run
MaxParts == 2        \* fragments one provider stream delivers

\* a run makes up to MaxCalls calls of handleSendMessage and up to MaxCopies
\* calls of copyMessage, the copies only in a run of one turn
WithinBounds(nCalls, nTurns, nCopies) ==
  /\ nCalls <= MaxCalls
  /\ nCopies <= MaxCopies
  /\ nTurns <= 1 \/ nCopies = 0

\* ------------------------------------------------------ program constants
CopyResetDelay == 2000
SimMinDelay == 1500
NumGeneric == 5

ErrorFallback ==
  <<"I apologize, but I encountered an error while processing your message. Please try again.">>
EmptyFallback ==
  <<"I apologize, but I didn't receive a proper response. Please try again.">>
FailedPrefix == <<"Failed to get AI response: ">>
UnknownError == <<"Unknown error">>

Greeting == <<"Hello! I'm Claude, your AI assistant. How can I help you today?">>
WeatherReply == <<"I don't have access to real-time weather data, but I'd be happy to help you find weather information or discuss climate topics in general.">>
SearchReply == <<"I understand you'd like me to search for information. In a real implementation, I would search the web for relevant results about your query.">>
ThinkReply == <<"Let me think deeply about this... In this mode, I would provide more thoughtful, analytical responses with deeper reasoning and consideration of multiple perspectives.">>
CanvasReply == <<"Canvas mode activated! In a real implementation, this would allow me to create visual content, diagrams, or interactive elements to help illustrate concepts.">>
VoiceReply == <<"I received your voice message! In a complete implementation, I would process the audio and respond accordingly.">>
Disclaimer == <<" (This is a demo response - in a real implementation, I would provide more specific and helpful answers based on your actual question.)">>
responses ==
  << <<"That's an interesting question! I'd be happy to help you explore that topic further.">>,
     <<"I understand what you're asking about. Let me provide some insights on that.">>,
     <<"Great question! Here's what I can tell you about that subject.">>,
     <<"I appreciate you sharing that with me. Let me offer some thoughts on this matter.">>,
     <<"That's a thoughtful inquiry. I'll do my best to provide you with a helpful response.">> >>

\* ------------------------------------------------------------ text helpers
WhiteSpace == {" ", "\t", "\n"}

RECURSIVE TrimStart(_)
TrimStart(s) ==
  IF s = <<>> THEN s
  ELSE IF Head(s) \in WhiteSpace THEN TrimStart(Tail(s)) ELSE s

RECURSIVE TrimEnd(_)
TrimEnd(s) ==
  IF s = <<>> THEN s
  ELSE IF s[Len(s)] \in WhiteSpace THEN TrimEnd(SubSeq(s, 1, Len(s) - 1)) ELSE s

\* a trim that leaves the text as it is
trimNone(s) == s

\* String.prototype.trim
trim(s) == TrimEnd(TrimStart(s))

\* String.prototype.includes
includes(s, sub) ==
  \E i \in 1..(Len(s) - Len(sub) + 1) : SubSeq(s, i, i + Len(sub) - 1) = sub

LowerOf(c) ==
  CASE c = "H" -> "h" [] c = "I" -> "i" [] c = "E" -> "e" [] c = "L" -> "l"
    [] c = "O" -> "o" [] c = "W" -> "w" [] c = "A" -> "a" [] c = "T" -> "t"
    [] c = "R" -> "r" [] c = "S" -> "s" [] c = "C" -> "c" [] c = "V" -> "v"
    [] OTHER -> c

\* String.prototype.toLowerCase
toLowerCase(s) == [i \in 1..Len(s) |-> LowerOf(s[i])]

Digit(d) ==
  CASE d = 0 -> "0" [] d = 1 -> "1" [] d = 2 -> "2" [] d = 3 -> "3" [] d = 4 -> "4"
    [] d = 5 -> "5" [] d = 6 -> "6" [] d = 7 -> "7" [] d = 8 -> "8" [] d = 9 -> "9"

RECURSIVE toString(_)
\* Number.prototype.toString of a non-negative integer
toString(n) ==
  IF n < 10 THEN <<Digit(n)>> ELSE toString(n \div 10) \o <<Digit(n % 10)>>

\* ------------------------------------------------------------------ state
VARIABLES
  strategy,    \* which acquirer the component is built with
  now,         \* Date.now(), milliseconds
  messages,    \* useState<Message[]>
  isLoading,   \* useState(false)
  copiedId,    \* useState<string | null>
  calls,       \* how each handleSendMessage invocation left its synchronous part
  turns,       \* one record per handleSendMessage invocation that passed the guard
  copies,      \* one record per copyMessage invocation
  timers       \* one record per setTimeout of copyMessage, in scheduling order

vars == <<strategy, now, messages, isLoading, copiedId, calls, turns, copies, timers>>

Null == <<"null">>
Absent == [present |-> FALSE, list |-> <<>>]
Files(l) == [present |-> TRUE, list |-> l]

\* ----------------------------------------------------------------- inputs
SubmitInputs ==
  { <<<<>>, Absent>>, <<<<" ">>, Files(<<>>)>>,
    <<<<" ", "h", "i", " ">>, Absent>>, <<<<" ">>, Files(<<"f">>)>> }
Parts ==
  { [hasText |-> FALSE, text |-> <<>>], [hasText |-> TRUE, text |-> <<>>],
    [hasText |-> TRUE, text |-> <<"o">>], [hasText |-> TRUE, text |-> <<"k">>] }
Thrown == { [isError |-> TRUE, message |-> <<"E">>], [isError |-> FALSE, message |-> <<"x">>] }

\* the instants at which a run reads the clock
ClockInstants == { 0, 1, CopyResetDelay }

\* a run starts no turn that the last clock instant is too early to answer
WithinHorizon(earliest) == \E u \in ClockInstants : u >= earliest

\* the texts submitted to exercise the acquirers
AcquirerTexts ==
  { <<>>,
    <<"o", "k">>,
    <<"H", "e", "l", "l", "o">>,
    <<"t", "h", "i", "s">>,
    <<"W", "e", "a", "t", "h", "e", "r">>,
    <<"[", "S", "e", "a", "r", "c", "h", ":">>,
    <<"[", "s", "e", "a", "r", "c", "h", ":">>,
    <<"[", "S", "e", "a", "r", "c", "h", ":", " ", "t", "h", "i", "s">>,
    <<"[", "S", "e", "a", "r", "c", "h", ":", "w", "e", "a", "t", "h", "e", "r">>,
    <<"[", "C", "a", "n", "v", "a", "s", ":", "[", "S", "e", "a", "r", "c", "h", ":">>,
    <<"[", "T", "h", "i", "n", "k", ":">>,
    <<"[", "V", "o", "i", "c", "e", " ", "m", "e", "s", "s", "a", "g", "e",
      "[", "C", "a", "n", "v", "a", "s", ":">>,
    <<"[", "V", "o", "i", "c", "e", " ", "m", "e", "s", "s", "a", "g", "e">> }
AcquirerInputs ==
  { <<text, Absent>> : text \in AcquirerTexts } \cup { <<<<>>, Files(<<"f">>)>> }

Init ==
  /\ strategy \in {"simulated", "provider"}
  /\ now = 0
  /\ messages = <<>>
  /\ isLoading = FALSE
  /\ copiedId = Null
  /\ calls = <<>>
  /\ turns = <<>>
  /\ copies = <<>>
  /\ timers = <<>>

Tick ==
  /\ \E t \in ClockInstants : t > now /\ now' = t
  /\ UNCHANGED <<strategy, messages, isLoading, copiedId, calls, turns, copies, timers>>

\* ------------------------------------------------------ response acquirers
\* the rule list with the [Canvas: rule tried before the [Search: rule
simulateAIResponseCanvasFirst(userMessage, rnd) ==
  IF includes(toLowerCase(userMessage), <<"h", "e", "l", "l", "o">>)
       \/ includes(toLowerCase(userMessage), <<"h", "i">>) THEN Greeting
  ELSE IF includes(toLowerCase(userMessage), <<"w", "e", "a", "t", "h", "e", "r">>)
    THEN WeatherReply
  ELSE IF includes(userMessage, <<"[", "C", "a", "n", "v", "a", "s", ":">>)
    THEN CanvasReply
  ELSE IF includes(userMessage, <<"[", "S", "e", "a", "r", "c", "h", ":">>)
    THEN SearchReply
  ELSE IF includes(userMessage, <<"[", "T", "h", "i", "n", "k", ":">>)
    THEN ThinkReply
  ELSE IF includes(userMessage,
             <<"[", "V", "o", "i", "c", "e", " ", "m", "e", "s", "s", "a", "g", "e">>)
    THEN VoiceReply
  ELSE responses[rnd + 1] \o Disclaimer

\* simulateAIResponse after its delay; rnd is Math.floor(Math.random() * 5)
simulateAIResponse(userMessage, rnd) ==
  IF includes(toLowerCase(userMessage), <<"h", "e", "l", "l", "o">>)
       \/ includes(toLowerCase(userMessage), <<"h", "i">>) THEN Greeting
  ELSE IF includes(toLowerCase(userMessage), <<"w", "e", "a", "t", "h", "e", "r">>)
    THEN WeatherReply
  ELSE IF includes(userMessage, <<"[", "S", "e", "a", "r", "c", "h", ":">>)
    THEN SearchReply
  ELSE IF includes(userMessage, <<"[", "T", "h", "i", "n", "k", ":">>)
    THEN ThinkReply
  ELSE IF includes(userMessage, <<"[", "C", "a", "n", "v", "a", "s", ":">>)
    THEN CanvasReply
  ELSE IF includes(userMessage,
             <<"[", "V", "o", "i", "c", "e", " ", "m", "e", "s", "s", "a", "g", "e">>)
    THEN VoiceReply
  ELSE responses[rnd + 1] \o Disclaimer

\* part?.text || ""
PartText(part) == IF part.hasText THEN part.text ELSE <<>>

\* a return of the buffer as it is
getAIResponseResultRaw(fullResponse) == fullResponse

\* fullResponse || "I apologize, but I didn't receive a proper response. ..."
getAIResponseResult(fullResponse) ==
  IF fullResponse = <<>> THEN EmptyFallback ELSE fullResponse

\* the Error getAIResponse throws from its catch block
getAIResponseError(error) ==
  [isError |-> TRUE,
   message |-> FailedPrefix \o (IF error.isError THEN error.message ELSE UnknownError)]

\* --------------------------------------------------------- turn controller
\* if (!content.trim() && (!files || files.length === 0)) return;
IsNoop(content, files) ==
  trim(content) = <<>> /\ (~files.present \/ Len(files.list) = 0)

\* a user message that stores the trimmed text
UserMessageTrimmed(content, files) ==
  [id |-> toString(now), content |-> trim(content), sender |-> "user",
   timestamp |-> now, files |-> files]

UserMessage(content, files) ==
  [id |-> toString(now), content |-> content, sender |-> "user",
   timestamp |-> now, files |-> files]

\* an assistant message stamped with the epoch instead of the current time
AiMessageStale(content) ==
  [id |-> toString(now + 1), content |-> content, sender |-> "ai",
   timestamp |-> 0, files |-> Absent]

AiMessage(content) ==
  [id |-> toString(now + 1), content |-> content, sender |-> "ai",
   timestamp |-> now, files |-> Absent]

\* the synchronous part of handleSendMessage, up to its await
handleSendMessage(content, files) ==
  /\ IF IsNoop(content, files)
       THEN /\ WithinBounds(Len(calls) + 1, Len(turns), Len(copies))
            /\ calls' = Append(calls, "returned")
            /\ UNCHANGED <<messages, isLoading, turns>>
       ELSE /\ WithinBounds(Len(calls) + 1, Len(turns) + 1, Len(copies))
            /\ strategy = "simulated" => WithinHorizon(now + SimMinDelay)
            /\ messages' = Append(messages, UserMessage(content, files))
            /\ isLoading' = TRUE
            /\ calls' = Append(calls, "awaiting")
            /\ turns' = Append(turns,
                 [pc |-> "awaiting", content |-> content, files |-> files,
                  userAt |-> Len(messages) + 1, aiAt |-> 0, started |-> now,
                  arrived |-> <<>>, fullResponse |-> <<>>,
                  trace |-> <<"user", "acquire">>])
  /\ UNCHANGED <<strategy, now, copiedId, copies, timers>>

\* a catch block that shows the caught error
CatchContentLeak(error) == error.message

\* the content of the errorMessage the catch block of handleSendMessage
\* builds; the caught error only goes to console.error
CatchContent(error) == ErrorFallback

\* a catch block that appends nothing
SettleSkipOnCatch(t, content, outcome) ==
  /\ messages' = IF outcome = "caught" THEN messages
                 ELSE Append(messages, AiMessage(content))
  /\ isLoading' = FALSE
  /\ turns' = [turns EXCEPT ![t].pc = outcome, ![t].aiAt = Len(messages) + 1,
                            ![t].trace = @ \o (IF outcome = "caught" THEN <<outcome>>
                                               ELSE <<outcome, "assistant">>)]
  /\ UNCHANGED <<strategy, now, copiedId, calls, copies, timers>>

\* a handler without its finally block
SettleKeepLoading(t, content, outcome) ==
  /\ messages' = Append(messages, AiMessage(content))
  /\ turns' = [turns EXCEPT ![t].pc = outcome, ![t].aiAt = Len(messages) + 1,
                            ![t].trace = @ \o <<outcome, "assistant">>]
  /\ UNCHANGED <<strategy, now, isLoading, copiedId, calls, copies, timers>>

\* a continuation whose reply lands in the list twice
SettleTwice(t, content, outcome) ==
  /\ messages' = Append(Append(messages, AiMessage(content)), AiMessage(content))
  /\ isLoading' = FALSE
  /\ turns' = [turns EXCEPT ![t].pc = outcome, ![t].aiAt = Len(messages) + 1,
                            ![t].trace = @ \o <<outcome, "assistant">>]
  /\ UNCHANGED <<strategy, now, copiedId, calls, copies, timers>>

\* a catch block that calls the acquirer a second time before giving up
SettleRetryOnCatch(t, content, outcome) ==
  IF outcome = "caught" /\ Len(turns[t].trace) = 2
    THEN /\ turns' = [turns EXCEPT ![t].trace = @ \o <<outcome, "acquire">>]
         /\ UNCHANGED <<strategy, now, messages, isLoading, copiedId, calls, copies, timers>>
    ELSE /\ messages' = Append(messages, AiMessage(content))
         /\ isLoading' = FALSE
         /\ turns' = [turns EXCEPT ![t].pc = outcome, ![t].aiAt = Len(messages) + 1,
                                   ![t].trace = @ \o <<outcome, "assistant">>]
         /\ UNCHANGED <<strategy, now, copiedId, calls, copies, timers>>

\* a continuation that appends to the list its call closed over, as
\* setMessages([...messages, aiMessage]) would
SettleStaleClosure(t, content, outcome) ==
  /\ messages' = Append(SubSeq(messages, 1, turns[t].userAt - 1), AiMessage(content))
  /\ isLoading' = FALSE
  /\ turns' = [turns EXCEPT ![t].pc = outcome, ![t].aiAt = Len(messages) + 1,
                            ![t].trace = @ \o <<outcome, "assistant">>]
  /\ UNCHANGED <<strategy, now, copiedId, calls, copies, timers>>

\* the rest of handleSendMessage once the acquirer has settled: the try
\* branch or the catch branch appends the assistant message, finally clears
\* isLoading
Settle(t, content, outcome) ==
  /\ messages' = Append(messages, AiMessage(content))
  /\ isLoading' = FALSE
  /\ turns' = [turns EXCEPT ![t].pc = outcome, ![t].aiAt = Len(messages) + 1,
                            ![t].trace = @ \o <<outcome, "assistant">>]
  /\ UNCHANGED <<strategy, now, copiedId, calls, copies, timers>>

\* simulateAIResponse resolves (it cannot reject)
simulateAIResponseReturn(t) ==
  /\ strategy = "simulated"
  /\ turns[t].pc = "awaiting"
  /\ now >= turns[t].started + SimMinDelay
  /\ \E rnd \in 0..(NumGeneric - 1) :
       Settle(t, simulateAIResponse(turns[t].content, rnd), "done")

\* an iteration that puts the new fragment in front of the buffer
getAIResponsePartPrepend(t, part) ==
  /\ strategy = "provider"
  /\ turns[t].pc = "awaiting"
  /\ Len(turns[t].arrived) < MaxParts
  /\ turns' = [turns EXCEPT ![t].arrived = Append(@, part),
                            ![t].fullResponse = PartText(part) \o @]
  /\ UNCHANGED <<strategy, now, messages, isLoading, copiedId, calls, copies, timers>>

\* one iteration of the for-await loop of getAIResponse: the stream
\* delivers part
getAIResponsePart(t, part) ==
  /\ strategy = "provider"
  /\ turns[t].pc = "awaiting"
  /\ Len(turns[t].arrived) < MaxParts
  /\ turns' = [turns EXCEPT ![t].arrived = Append(@, part),
                            ![t].fullResponse = @ \o PartText(part)]
  /\ UNCHANGED <<strategy, now, messages, isLoading, copiedId, calls, copies, timers>>

\* the stream ends: getAIResponse returns
getAIResponseReturn(t) ==
  /\ strategy = "provider"
  /\ turns[t].pc = "awaiting"
  /\ Settle(t, getAIResponseResult(turns[t].fullResponse), "done")

\* a failure path that shows the fragments received before the failure
getAIResponseThrowPartial(t) ==
  /\ strategy = "provider"
  /\ turns[t].pc = "awaiting"
  /\ \E error \in Thrown :
       Settle(t, IF turns[t].fullResponse # <<>> THEN turns[t].fullResponse
                 ELSE CatchContent(getAIResponseError(error)), "caught")

\* puter.ai.chat or the stream throws: getAIResponse rethrows
getAIResponseThrow(t) ==
  /\ strategy = "provider"
  /\ turns[t].pc = "awaiting"
  /\ \E error \in Thrown : Settle(t, CatchContent(getAIResponseError(error)), "caught")

\* --------------------------------------------------------- clipboard helper
\* copyMessage up to its await; the button of message i calls it
copyMessage(i) ==
  /\ WithinBounds(Len(calls), Len(turns), Len(copies) + 1)
  /\ copies' = Append(copies, [messageId |-> messages[i].id, pc |-> "writing"])
  /\ UNCHANGED <<strategy, now, messages, isLoading, copiedId, calls, turns, timers>>

\* navigator.clipboard.writeText resolves
copyMessageThen(c) ==
  /\ copies[c].pc = "writing"
  /\ copiedId' = copies[c].messageId
  /\ timers' = Append(timers, [messageId |-> copies[c].messageId,
                               due |-> now + CopyResetDelay, fired |-> FALSE])
  /\ copies' = [copies EXCEPT ![c].pc = "copied"]
  /\ UNCHANGED <<strategy, now, messages, isLoading, calls, turns>>

\* a catch block that also withdraws the copied mark
copyMessageCatchClears(c) ==
  /\ copies[c].pc = "writing"
  /\ copies' = [copies EXCEPT ![c].pc = "failed"]
  /\ copiedId' = Null
  /\ UNCHANGED <<strategy, now, messages, isLoading, calls, turns, timers>>

\* navigator.clipboard.writeText rejects
copyMessageCatch(c) ==
  /\ copies[c].pc = "writing"
  /\ copies' = [copies EXCEPT ![c].pc = "failed"]
  /\ UNCHANGED <<strategy, now, messages, isLoading, copiedId, calls, turns, timers>>

\* the callback of setTimeout(() => setCopiedId(null), 2000)
timerFire(k) ==
  /\ ~timers[k].fired
  /\ now >= timers[k].due
  /\ \A j \in 1..(k - 1) : timers[j].fired
  /\ copiedId' = Null
  /\ timers' = [timers EXCEPT ![k].fired = TRUE]
  /\ UNCHANGED <<strategy, now, messages, isLoading, calls, turns, copies>>

Next ==
  \/ Tick
  \/ \E in \in SubmitInputs : handleSendMessage(in[1], in[2])
  \/ \E t \in 1..Len(turns) : simulateAIResponseReturn(t)
  \/ \E t \in 1..Len(turns), part \in Parts :
        turns[t].arrived = <<>> /\ part.text = <<"o">> /\ getAIResponsePart(t, part)
  \/ \E t \in 1..Len(turns) : getAIResponseReturn(t)
  \/ \E t \in 1..Len(turns) : getAIResponseThrow(t)
  \/ \E i \in 1..Len(messages) : copyMessage(i)
  \/ \E c \in 1..Len(copies) : copyMessageThen(c)
  \/ \E c \in 1..Len(copies) : copyMessageCatch(c)
  \/ \E k \in 1..Len(timers) : timerFire(k)

Spec == Init /\ [][Next]_vars

\* runs of one turn that put the acquirers through their cases: the canned
\* rules of simulateAIResponse and the streams of getAIResponse
NextAcquirer ==
  \/ Tick
  \/ \E in \in AcquirerInputs : turns = <<>> /\ handleSendMessage(in[1], in[2])
  \/ \E t \in 1..Len(turns) : simulateAIResponseReturn(t)
  \/ \E t \in 1..Len(turns), part \in Parts : getAIResponsePart(t, part)
  \/ \E t \in 1..Len(turns) : getAIResponseReturn(t)
  \/ \E t \in 1..Len(turns) : getAIResponseThrow(t)

SpecAcquirer == Init /\ [][NextAcquirer]_vars

\* the turn controller without the clipboard helper
NextTurns ==
  \/ Tick
  \/ \E in \in SubmitInputs : handleSendMessage(in[1], in[2])
  \/ \E t \in 1..Len(turns) : simulateAIResponseReturn(t)
  \/ \E t \in 1..Len(turns), part \in Parts :
        turns[t].arrived = <<>> /\ part.text = <<"o">> /\ getAIResponsePart(t, part)
  \/ \E t \in 1..Len(turns) : getAIResponseReturn(t)
  \/ \E t \in 1..Len(turns) : getAIResponseThrow(t)

\* the turn controller behind an input surface that is disabled while
\* isLoading is true (PromptInputBox gets isLoading and onSend)
NextSerial ==
  \/ Tick
  \/ \E in \in SubmitInputs : ~isLoading /\ handleSendMessage(in[1], in[2])
  \/ \E t \in 1..Len(turns) : simulateAIResponseReturn(t)
  \/ \E t \in 1..Len(turns), part \in Parts :
        turns[t].arrived = <<>> /\ part.text = <<"o">> /\ getAIResponsePart(t, part)
  \/ \E t \in 1..Len(turns) : getAIResponseReturn(t)
  \/ \E t \in 1..Len(turns) : getAIResponseThrow(t)

SpecSerial == Init /\ [][NextSerial]_vars

\* time passes, the timer of simulateAIResponse goes off once it is due, and
\* the provider's stream ends or throws: every awaited promise settles
AcquirerSettles(t) ==
  /\ t <= Len(turns)
  /\ simulateAIResponseReturn(t) \/ getAIResponseReturn(t) \/ getAIResponseThrow(t)

FairSpec ==
  /\ Init /\ [][NextTurns]_vars
  /\ WF_vars(Tick)
  /\ \A t \in 1..MaxCalls : WF_vars(AcquirerSettles(t))

\* ------------------------------------------------------------- properties
Settled(t) == turns[t].pc \in {"done", "caught"}
InFlight == { t \in 1..Len(turns) : turns[t].pc = "awaiting" }
Blank(text) == \A i \in 1..Len(text) : text[i] \in WhiteSpace
NoFiles(files) == ~files.present \/ files.list = <<>>
Last(seq) == seq[Len(seq)]

\* C1: every handleSendMessage call that passes the guard has appended one
\* user message, and once it has completed one assistant message after it,
\* on the try path and on the catch path alike; the store holds nothing else.
C1_OneUserOneAssistant ==
  /\ \A t \in 1..Len(turns) :
       /\ turns[t].userAt \in 1..Len(messages)
       /\ messages[turns[t].userAt].sender = "user"
       /\ IF Settled(t)
            THEN /\ turns[t].aiAt \in (turns[t].userAt + 1)..Len(messages)
                 /\ messages[turns[t].aiAt].sender = "ai"
            ELSE turns[t].aiAt = 0
  /\ \A t, u \in 1..Len(turns) :
       t # u => /\ turns[t].userAt # turns[u].userAt
                /\ Settled(t) /\ Settled(u) => turns[t].aiAt # turns[u].aiAt
  /\ Len(messages) = Len(turns) + Cardinality({ t \in 1..Len(turns) : Settled(t) })

C1_Witness ==
  \E t, u \in 1..Len(turns) :
    /\ turns[t].pc = "done" /\ turns[u].pc = "caught"
    /\ Len(messages) = 4

\* C2: a handleSendMessage call with blank text and no files returns at
\* once in every state: the store, isLoading and copiedId stay as they were
\* and no acquirer is started.
C2_BlankSubmitIsNoop ==
  [][ \A in \in SubmitInputs :
        (Blank(in[1]) /\ NoFiles(in[2]) /\ handleSendMessage(in[1], in[2]))
          => /\ messages' = messages
             /\ isLoading' = isLoading
             /\ copiedId' = copiedId
             /\ turns' = turns
             /\ calls' = Append(calls, "returned") ]_vars

C2_Witness ==
  /\ calls # <<>> /\ Last(calls) = "returned"
  /\ isLoading
  /\ copiedId # Null
  /\ InFlight # {}

\* C3: isLoading is true right after a user message is appended and false
\* right after an assistant message is appended, whichever way the acquirer
\* settled.
C3_LoadingAtAppends ==
  [][ Len(messages') = Len(messages) + 1
        => /\ Last(messages').sender = "user" => isLoading'
           /\ Last(messages').sender = "ai" => ~isLoading' ]_vars

C3_Witness ==
  \E t, u \in 1..Len(turns) :
    /\ turns[t].pc = "caught" /\ turns[u].pc = "awaiting"
    /\ turns[t].aiAt < turns[u].userAt
    /\ isLoading

\* the chunks of every error message the provider can raise, as thrown and
\* as rethrown by getAIResponse
ErrorChunks ==
  UNION { { e.message[i] : i \in 1..Len(e.message) } \cup
          { getAIResponseError(e).message[i] :
              i \in 1..Len(getAIResponseError(e).message) } : e \in Thrown }

\* C4: a turn whose acquirer failed shows the fixed fallback text, and no
\* stored message carries any part of an error message.
C4_FallbackOnFailure ==
  /\ \A t \in 1..Len(turns) :
       turns[t].pc = "caught" => messages[turns[t].aiAt].content = ErrorFallback
  /\ \A i \in 1..Len(messages) :
       \A j \in 1..Len(messages[i].content) :
         messages[i].content[j] \notin ErrorChunks

C4_Witness ==
  /\ strategy = "provider"
  /\ \E t \in 1..Len(turns) :
       turns[t].pc = "caught" /\ messages[turns[t].aiAt].sender = "ai"

\* C5: the user message of a turn stores the submitted text and files as
\* submitted, leading and trailing white space included.
C5_UserContentVerbatim ==
  \A t \in 1..Len(turns) :
    /\ messages[turns[t].userAt].content = turns[t].content
    /\ messages[turns[t].userAt].files = turns[t].files

C5_Witness ==
  \E t \in 1..Len(turns) :
    /\ trim(turns[t].content) # turns[t].content
    /\ trim(turns[t].content) # <<>>
    /\ Head(messages[turns[t].userAt].content) \in WhiteSpace

\* C6: once all N accepted calls have completed the store holds 2N messages,
\* and in every state the store is sorted by timestamp.
C6_LengthAndOrder ==
  /\ InFlight = {} => Len(messages) = 2 * Len(turns)
  /\ \A i, j \in 1..Len(messages) :
       i < j => messages[i].timestamp <= messages[j].timestamp

C6_Witness ==
  /\ Len(turns) = 2
  /\ InFlight = {}
  /\ messages[1].timestamp < messages[2].timestamp
  /\ messages[2].timestamp < messages[4].timestamp

\* C7: no two messages of the store have the same id.
C7_UniqueIds ==
  \A i, j \in 1..Len(messages) : i # j => messages[i].id # messages[j].id

\* C8 as stated: isLoading is true exactly when some turn is between its two
\* appends, under every interleaving.
C8_LoadingIffInFlight == isLoading <=> InFlight # {}

\* no call was made while an earlier turn was awaiting its acquirer
NoOverlap ==
  \A t \in 1..(Len(turns) - 1) :
    turns[t].aiAt # 0 /\ turns[t].aiAt < turns[t + 1].userAt

\* C8 as amended: isLoading implies that some turn is between its two
\* appends, and the two are equivalent while no two turns have overlapped.
C8_LoadingImpliesInFlight ==
  /\ isLoading => InFlight # {}
  /\ NoOverlap => (isLoading <=> InFlight # {})

C8_Witness ==
  /\ Cardinality(InFlight) = 2
  /\ isLoading

\* C9: the latest successful copy keeps copiedId at its id while its 2000 ms
\* have not passed, and once its own reset has run, which is not before they
\* have passed, copiedId is null.
C9_CopiedUntilOwnReset ==
  timers # <<>> =>
    IF Last(timers).fired
      THEN copiedId = Null /\ now >= Last(timers).due
      ELSE now < Last(timers).due => copiedId = Last(timers).messageId

\* C10: the reset scheduled by an earlier copy does not clear copiedId while
\* the window of a later copy is still running: when it runs, copiedId stays
\* at the id of the latest copy.
C10_SecondCopyRestartsWindow ==
  [][ \A k \in 1..(Len(timers) - 1) :
        (~timers[k].fired /\ timers'[k].fired /\ now' < Last(timers).due)
          => copiedId' = Last(timers).messageId ]_vars

\* ---------------------------------------------------------------- C11
\* the reply a settled turn appended, and the turns the simulated acquirer answered
Reply(t) == messages[turns[t].aiAt].content
Answered == { t \in 1..Len(turns) : strategy = "simulated" /\ turns[t].pc = "done" }
SearchTag == <<"[", "S", "e", "a", "r", "c", "h", ":">>
MatchesGreeting(text) ==
  \E i \in 1..Len(text) :
    \/ i + 1 <= Len(text) /\ text[i] \in {"h", "H"} /\ text[i + 1] \in {"i", "I"}
    \/ /\ i + 4 <= Len(text)
       /\ text[i] \in {"h", "H"} /\ text[i + 1] \in {"e", "E"}
       /\ text[i + 2] \in {"l", "L"} /\ text[i + 3] \in {"l", "L"}
       /\ text[i + 4] \in {"o", "O"}
MatchesWeather(text) ==
  \E i \in 1..Len(text) :
    /\ i + 6 <= Len(text)
    /\ text[i] \in {"w", "W"} /\ text[i + 1] \in {"e", "E"}
    /\ text[i + 2] \in {"a", "A"} /\ text[i + 3] \in {"t", "T"}
    /\ text[i + 4] \in {"h", "H"} /\ text[i + 5] \in {"e", "E"}
    /\ text[i + 6] \in {"r", "R"}

\* C11 as stated: every input that contains the literal "[Search:" is answered
\* with the fixed search-mode response.
C11_SearchAlwaysSearchReply ==
  \A t \in Answered :
    includes(turns[t].content, SearchTag) => Reply(t) = SearchReply

\* C11 amended: an input that contains the literal "[Search:" and, in any
\* letter case, none of "hello", "hi" and "weather" is answered with the fixed
\* search-mode response.
C11_SearchUnlessEarlierRule ==
  \A t \in Answered :
    ( /\ includes(turns[t].content, SearchTag)
      /\ ~MatchesGreeting(turns[t].content)
      /\ ~MatchesWeather(turns[t].content) ) => Reply(t) = SearchReply

\* a "[Search:" input that also names another mode has been answered in search mode
C11_Witness ==
  \E t \in Answered :
    /\ includes(turns[t].content, SearchTag)
    /\ Len(turns[t].content) > Len(SearchTag)
    /\ Reply(t) = SearchReply

\* ---------------------------------------------------------------- C12
\* the texts of the fragments of a stream, joined in arrival order
RECURSIVE Concatenation(_)
Concatenation(parts) ==
  IF parts = <<>> THEN <<>>
  ELSE (IF Head(parts).hasText THEN Head(parts).text ELSE <<>>)
         \o Concatenation(Tail(parts))
Streamed == { t \in 1..Len(turns) : strategy = "provider" /\ turns[t].pc = "done" }

\* C12: the provider strategy returns the texts of all fragments of the stream
\* joined in arrival order, a fragment without text or with empty text counting
\* as the empty string, and the fixed "I apologize ..." sentence when that
\* concatenation is empty.
C12_ProviderConcatenation ==
  \A t \in Streamed :
    Reply(t) = IF Concatenation(turns[t].arrived) = <<>>
                 THEN EmptyFallback
                 ELSE Concatenation(turns[t].arrived)

\* a stream that began with "o" and finished with "k" has ended
C12_Witness ==
  \E t \in Streamed :
    /\ Len(turns[t].arrived) >= 2
    /\ turns[t].arrived[1].text = <<"o">>
    /\ turns[t].arrived[Len(turns[t].arrived)].text = <<"k">>
    /\ Reply(t)[1] = "o" /\ Last(Reply(t)) = "k"

\* ---------------------------------------------------------------- C13
\* C13: the message store is append-only: across every step of submit (at any
\* stage), copy and timer reset the previous message list is a prefix of the
\* new one, so no message is removed, reordered or changed in any field.
C13_AppendOnly ==
  [][ /\ Len(messages') >= Len(messages)
      /\ \A i \in 1..Len(messages) : messages'[i] = messages[i] ]_vars

\* two overlapping turns have both appended their assistant message
C13_Witness ==
  /\ Len(turns) >= 2
  /\ Settled(1) /\ Settled(2)
  /\ turns[2].userAt < turns[1].aiAt
  /\ Len(messages) >= 4

\* ---------------------------------------------------------------- C14
\* how many times a turn has invoked its acquirer
Invocations(t) ==
  Cardinality({ i \in 1..Len(turns[t].trace) : turns[t].trace[i] = "acquire" })

\* C14: within one turn the user message is appended before the acquirer is
\* invoked, the acquirer has resolved or failed before the assistant message
\* of the turn is appended, and the acquirer is invoked exactly once per
\* accepted submit.
C14_TurnEventOrder ==
  \A t \in 1..Len(turns) :
    /\ Invocations(t) = 1
    /\ messages[turns[t].userAt].sender = "user"
    /\ turns[t].pc = "awaiting" =>
         /\ turns[t].trace = <<"user", "acquire">>
         /\ turns[t].aiAt = 0
    /\ Settled(t) =>
         /\ turns[t].trace = <<"user", "acquire", turns[t].pc, "assistant">>
         /\ turns[t].userAt < turns[t].aiAt
         /\ messages[turns[t].aiAt].sender = "ai"

\* a turn whose acquirer failed has appended its assistant message while
\* another turn still waits for its acquirer
C14_Witness ==
  \E t, u \in 1..Len(turns) :
    /\ turns[t].pc = "caught" /\ messages[turns[t].aiAt].sender = "ai"
    /\ turns[u].pc = "awaiting"

\* ---------------------------------------------------------------- C15
\* C15: provided the acquirer eventually resolves or fails, every accepted
\* submit eventually completes, on the try path or on the catch path, and
\* whenever every started turn has completed pending is false: no acquirer
\* failure leaves it stuck at true.
C15_TurnsComplete ==
  /\ \A t \in 1..MaxCalls :
       [](Len(turns) >= t => <>(Len(turns) >= t /\ Settled(t)))
  /\ [](InFlight = {} => ~isLoading)

\* two overlapping turns have both completed, one of them through the catch
\* block, and pending is false
C15_Witness ==
  /\ Len(turns) >= 2
  /\ InFlight = {}
  /\ \E t \in 1..Len(turns) : turns[t].pc = "caught"
  /\ turns[2].userAt < turns[1].aiAt
  /\ ~isLoading

\* ---------------------------------------------------------------- C16
\* C16: when the clipboard write fails, copy leaves lastCopiedMessageId, the
\* message list and pending unchanged and schedules no reset timer; the
\* failure ends in the catch block of copyMessage.
C16_FailedCopyChangesNothing ==
  [][ \A c \in 1..Len(copies) :
        (copies[c].pc = "writing" /\ copies'[c].pc = "failed")
          => /\ copiedId' = copiedId
             /\ messages' = messages
             /\ isLoading' = isLoading
             /\ timers' = timers ]_vars

\* a copy has failed while the mark of an earlier, successful copy is shown
\* and its reset timer is still to fire
C16_Witness ==
  /\ \E c \in 1..Len(copies) : copies[c].pc = "failed"
  /\ copiedId # Null
  /\ timers # <<>> /\ ~Last(timers).fired
  /\ isLoading

\* ---------------------------------------------------------------- C17
AssistantSlots == { i \in 1..Len(messages) : messages[i].sender = "ai" }

\* C17: no partially received text reaches the message store: an assistant
\* message holds the whole concatenation of a stream that ended, the fixed
\* empty-response sentence or the fixed failure fallback; a stream that fails
\* after delivering fragments yields the failure fallback, and a turn appends
\* one assistant message only.
C17_NoPartialText ==
  strategy = "provider" =>
    /\ \A i \in AssistantSlots :
         \E t \in 1..Len(turns) :
           /\ turns[t].aiAt = i
           /\ \/ turns[t].pc = "done"
                 /\ messages[i].content \in {Concatenation(turns[t].arrived), EmptyFallback}
              \/ turns[t].pc = "caught" /\ messages[i].content = ErrorFallback
    /\ \A t \in 1..Len(turns) :
         Cardinality({ i \in AssistantSlots : i = turns[t].aiAt })
           = IF Settled(t) THEN 1 ELSE 0
    /\ Cardinality(AssistantSlots) = Cardinality({ t \in 1..Len(turns) : Settled(t) })

\* a stream failed after it had delivered text, and the turn shows the fallback
C17_Witness ==
  \E t \in 1..Len(turns) :
    /\ turns[t].pc = "caught"
    /\ Concatenation(turns[t].arrived) # <<>>
    /\ Reply(t) = ErrorFallback
    /\ Cardinality(AssistantSlots) = 1

\* ---------------------------------------------------------------- C18
\* C18: in every reachable state every stored message whose content is the
\* empty string has a non-empty files sequence, and no assistant message has
\* empty content, under either acquirer.
C18_EmptyContentHasFiles ==
  \A i \in 1..Len(messages) :
    /\ messages[i].content = <<>> =>
         messages[i].files.present /\ messages[i].files.list # <<>>
    /\ messages[i].sender = "ai" => messages[i].content # <<>>

\* a submit of files without text was answered by a stream that carried no text
C18_Witness ==
  \E t \in Streamed :
    /\ messages[turns[t].userAt].content = <<>>
    /\ messages[turns[t].userAt].files.list # <<>>
    /\ turns[t].arrived # <<>>
    /\ Reply(t) = EmptyFallback

\* ---------------------------------------------------------------- C19
\* the rules in their fixed order: whether each matches a text, and its response
RuleMatches(text) ==
  << MatchesGreeting(text),
     MatchesWeather(text),
     includes(text, SearchTag),
     includes(text, <<"[", "T", "h", "i", "n", "k", ":">>),
     includes(text, <<"[", "C", "a", "n", "v", "a", "s", ":">>),
     includes(text, <<"[", "V", "o", "i", "c", "e", " ", "m", "e", "s", "s", "a", "g", "e">>) >>
RuleReplies ==
  <<Greeting, WeatherReply, SearchReply, ThinkReply, CanvasReply, VoiceReply>>
Matching(text) == { k \in 1..Len(RuleReplies) : RuleMatches(text)[k] }
Earliest(text) == { k \in Matching(text) : \A j \in Matching(text) : k <= j }

\* C19: the simulated strategy never fails and answers by first match over
\* the fixed rule order greeting ("hello"/"hi"), "weather", "[Search:",
\* "[Think:", "[Canvas:", "[Voice message": an input matching several rules
\* gets the response of the earliest one, an input matching none gets one of
\* the five generic acknowledgements followed by the disclaimer.
C19_FirstMatchingRule ==
  strategy = "simulated" =>
    \A t \in 1..Len(turns) :
      /\ turns[t].pc # "caught"
      /\ turns[t].pc = "done" =>
           IF Matching(turns[t].content) = {}
             THEN \E g \in 1..NumGeneric : Reply(t) = responses[g] \o Disclaimer
             ELSE \A k \in Earliest(turns[t].content) : Reply(t) = RuleReplies[k]

\* an input that matches two of the bracket rules got the response of the
\* earlier one
C19_Witness ==
  \E t \in Answered :
    /\ Cardinality(Matching(turns[t].content)) >= 2
    /\ ~MatchesGreeting(turns[t].content) /\ ~MatchesWeather(turns[t].content)
    /\ \E k \in Earliest(turns[t].content) : Reply(t) = RuleReplies[k]

\* ---------------------------------------------------------------- C20
\* C20: when no submit is issued while pending is true, in every reachable
\* state the message list alternates senders starting with user (user, ai,
\* user, ai, ...) and pending is true exactly when the list length is odd.
C20_AlternatingSenders ==
  /\ \A i \in 1..Len(messages) :
       messages[i].sender = IF i % 2 = 1 THEN "user" ELSE "ai"
  /\ isLoading <=> Len(messages) % 2 = 1

\* a second turn is in flight after a first one that completed
C20_Witness ==
  /\ Len(messages) >= 3
  /\ messages[3].sender = "user"
  /\ isLoading
  /\ Len(turns) >= 2 /\ Settled(1) /\ turns[2].pc = "awaiting"

\* ---------------------------------------------------------------- C21
UserSlots == { i \in 1..Len(messages) : messages[i].sender = "user" }

\* C21: under any interleaving of submits, also of submits issued while
\* earlier turns still await their acquirer, the number of user messages
\* minus the number of assistant messages is the number of turns in flight:
\* assistant messages never outnumber user messages, and once every turn has
\* completed the two counts are equal.
C21_BalanceIsInFlight ==
  /\ Cardinality(UserSlots) - Cardinality(AssistantSlots) = Cardinality(InFlight)
  /\ Cardinality(AssistantSlots) <= Cardinality(UserSlots)
  /\ InFlight = {} => Cardinality(AssistantSlots) = Cardinality(UserSlots)

\* a submit was issued while an earlier turn was awaiting its acquirer, the
\* later turn has completed first and the earlier one is still in flight
C21_Witness ==
  /\ Len(turns) >= 2
  /\ turns[1].pc = "awaiting" /\ Settled(2)
  /\ Cardinality(UserSlots) = 2 /\ Cardinality(AssistantSlots) = 1

====
